---- MODULE Spec2Model ----
(***************************************************************************)
(* Register accessors generated by implement_registers! /                  *)
(* implement_register! / implement_register_field! (src/ll/register.rs).   *)
(*                                                                         *)
(* A register value is a byte array [u8; size]; a field is a bit range of  *)
(* the Lsb0 bit view of that array, loaded and stored with load_be and     *)
(* store_be.  An accessor borrows the device's interface exclusively and   *)
(* offers read / write / modify according to the register's access mode.   *)
(***************************************************************************)
EXTENDS Naturals, Sequences, FiniteSets

VARIABLES
    dev,      \* the device whose register set the accessors were generated for
    mem,      \* content held by the interface, by register address
    setLive,  \* a RegisterSet borrowing the device's interface exists
    setUsed,  \* that RegisterSet has handed out its accessor (&'a mut self)
    accs,     \* the live RegAccessors, named by their register
    pc,       \* per accessor: "idle", or "transform" inside modify's closure
    rval,     \* per accessor: the R value modify has read, <<>> otherwise
    trace,    \* interface calls of the operation in flight / last completed
    last,     \* what the last operation did and returned
    codec     \* the bit-field codec applied to a free-standing buffer

vars == <<dev, mem, setLive, setUsed, accs, pc, rval, trace, last, codec>>

----------------------------------------------------------------------------
(* Bounds of the model. *)

\* values handed to setters through an accessor are drawn from 0..MaxVal
MaxVal == 2
\* values handed to setters of a free-standing buffer: 0..MaxCodecVal, and
\* the values around the width of the field
MaxCodecVal == 3
\* size in bytes of the free-standing buffers the codec is exercised on
CodecSize == 3

----------------------------------------------------------------------------
(* Bit-field codec: as_bits::<Lsb0>()[range].load_be() / .store_be(value)  *)

\* u8: the element type of the register buffer
ByteBits == 8

Pow2(n) == 2 ^ n

\* 2^ByteBits: the number of values of a u8
ByteMod == Pow2(ByteBits)

\* the all-zero buffer [0; size]
zero(size) == [i \in 1..size |-> 0]

\* bit i of the Lsb0 view of a byte array: byte i div 8, counted from its LSB
Bit(buf, i) == (buf[(i \div ByteBits) + 1] \div Pow2(i % ByteBits)) % 2

\* index of the first / last element the range [lo, hi) touches
FirstElem(lo) == lo \div ByteBits
LastElem(hi) == (hi - 1) \div ByteBits

\* the live bits [s, t) of element e for the range [lo, hi)
ChunkLo(e, lo) == IF e = FirstElem(lo) THEN lo % ByteBits ELSE 0
ChunkHi(e, hi) == IF e = LastElem(hi) THEN ((hi - 1) % ByteBits) + 1 ELSE ByteBits

\* bits [s, t) of one element, shifted down to position 0
GetBits(byte, s, t) == (byte \div Pow2(s)) % Pow2(t - s)

\* (a store that shifts the value into place without masking it to t-s bits)
SetBits_nomask(byte, s, t, val) ==
    ((byte - GetBits(byte, s, t) * Pow2(s)) + val * Pow2(s)) % ByteMod

\* one element with bits [s, t) replaced by the low t-s bits of val
SetBits(byte, s, t, val) ==
    (byte - GetBits(byte, s, t) * Pow2(s)) + (val % Pow2(t - s)) * Pow2(s)

\* load_be: elements are visited from the first to the last, each shifting
\* the accumulator left by the width of its live bits
RECURSIVE LoadFrom(_, _, _, _, _)
LoadFrom(buf, lo, hi, e, accum) ==
    IF e > LastElem(hi)
    THEN accum
    ELSE LET s == ChunkLo(e, lo)
             t == ChunkHi(e, hi)
         IN  LoadFrom(buf, lo, hi, e + 1,
                      accum * Pow2(t - s) + GetBits(buf[e + 1], s, t))

\* (load_le: the first element is the least significant)
RECURSIVE LoadFromLE(_, _, _, _, _)
LoadFromLE(buf, lo, hi, e, accum) ==
    LET s == ChunkLo(e, lo)
        t == ChunkHi(e, hi)
        next == accum * Pow2(t - s) + GetBits(buf[e + 1], s, t)
    IN  IF e = FirstElem(lo)
        THEN next
        ELSE LoadFromLE(buf, lo, hi, e - 1, next)

load_le(buf, lo, hi) == LoadFromLE(buf, lo, hi, LastElem(hi), 0)

load_be(buf, lo, hi) == LoadFrom(buf, lo, hi, FirstElem(lo), 0)

\* store_be: elements are visited from the last to the first, each taking
\* the low bits of the value, which is then shifted right by that width
RECURSIVE StoreFrom(_, _, _, _, _)
StoreFrom(buf, lo, hi, e, value) ==
    LET s == ChunkLo(e, lo)
        t == ChunkHi(e, hi)
        stored == [buf EXCEPT ![e + 1] = SetBits(buf[e + 1], s, t, value)]
    IN  IF e = FirstElem(lo)
        THEN stored
        ELSE StoreFrom(stored, lo, hi, e - 1, value \div Pow2(t - s))

store_be(buf, lo, hi, value) == StoreFrom(buf, lo, hi, LastElem(hi), value)

\* a field: its bit range and the width in bits of its scalar type
Field(lo, hi, bits) == [lo |-> lo, hi |-> hi, bits |-> bits]

Width(F) == F.hi - F.lo

\* generated getter: pub fn $field_name(&self) -> $field_type
Getter(buf, F) == load_be(buf, F.lo, F.hi)

\* (a setter that stores at the start of the buffer, not at its range)
Setter_noshift(buf, F, v) == store_be(buf, 0, Width(F), v)

\* generated setter: pub fn $field_name(mut self, value) -> Self
Setter(buf, F, v) == store_be(buf, F.lo, F.hi, v)

----------------------------------------------------------------------------
(* Register maps handed to implement_registers! *)

Devices == {"sensor", "adc"}

\* $register_name($register_access_specifier, $register_address, $register_size)
\* = { $field_name: $field_type = $field_access_specifier $field_bit_range }
Schema ==
    [ctrl   |-> [device |-> "sensor", access |-> "RW", addr |-> 1, size |-> 1,
                 fields |-> [flag  |-> [range |-> Field(0, 1, 8), access |-> "RW"],
                             count |-> [range |-> Field(1, 5, 8), access |-> "RW"]]],
     status |-> [device |-> "sensor", access |-> "RO", addr |-> 2, size |-> 2,
                 fields |-> [code  |-> [range |-> Field(4, 12, 8), access |-> "RO"]]],
     cmd    |-> [device |-> "sensor", access |-> "WO", addr |-> 3, size |-> 1,
                 fields |-> [go    |-> [range |-> Field(0, 1, 8), access |-> "WO"]]],
     data   |-> [device |-> "adc", access |-> "RW", addr |-> 1, size |-> 2,
                 fields |-> [low   |-> [range |-> Field(0, 6, 8), access |-> "RO"],
                             mid   |-> [range |-> Field(6, 10, 8), access |-> "RW"]]],
     ident  |-> [device |-> "adc", access |-> "RO", addr |-> 2, size |-> 1,
                 fields |-> [rev   |-> [range |-> Field(0, 8, 8), access |-> "RO"]]]]

Regs == DOMAIN Schema

RegsOf(d) == {r \in Regs : Schema[r].device = d}

Access(reg) == Schema[reg].access
Addr(reg) == Schema[reg].addr
Size(reg) == Schema[reg].size
Fields(reg) == DOMAIN Schema[reg].fields
Range(reg, fld) == Schema[reg].fields[fld].range

AddrsOf(d) == {Addr(r) : r \in RegsOf(d)}
RegAt(d, a) == CHOOSE r \in RegsOf(d) : Addr(r) = a

\* the arms of implement_register!: RO -> @R, WO -> @W, RW -> @R, @W and modify
HasRead(reg) == Access(reg) \in {"RO", "RW"}
HasWrite_any(reg) == TRUE
HasWrite(reg) == Access(reg) \in {"WO", "RW"}
HasModify(reg) == Access(reg) = "RW"

\* the arms of implement_register_field!: a getter for RO and RW fields (@R),
\* a setter for WO and RW fields (@W)
Getters(reg) ==
    IF HasRead(reg)
    THEN {f \in Fields(reg) : Schema[reg].fields[f].access \in {"RO", "RW"}}
    ELSE {}
Setters(reg) ==
    IF HasWrite(reg)
    THEN {f \in Fields(reg) : Schema[reg].fields[f].access \in {"WO", "RW"}}
    ELSE {}

----------------------------------------------------------------------------
(* The caller's closures *)

\* the values a closure hands to a setter: the small ones, and 9 (0b1001),
\* which fits the 4-bit count and is too wide for the 1-bit flag
SetterVals == (0..MaxVal) \cup {9}

\* one setter call of a closure: w.$field_name(val)
SetterCalls(reg) == [field : Setters(reg), val : SetterVals]

\* a closure is the chain of setter calls it makes on the W it is given; it
\* makes at most one call per setter the register has, in any order, and may
\* call the same one twice
Transforms(reg) ==
    UNION {[1..k -> SetterCalls(reg)] : k \in 0..Cardinality(Setters(reg))}

\* the fields a closure sets
Touched(f) == {f[i].field : i \in 1..Len(f)}

\* (setters that do not chain: only the last call's field is set)
ApplySetters_last(w, reg, f) ==
    IF f = <<>>
    THEN w
    ELSE Setter(w, Range(reg, f[Len(f)].field), f[Len(f)].val)

\* f(w): the setter calls applied to w in order, each to the W the previous
\* one returned
RECURSIVE ApplySetters(_, _, _)
ApplySetters(w, reg, f) ==
    IF f = <<>>
    THEN w
    ELSE ApplySetters(Setter(w, Range(reg, Head(f).field), Head(f).val), reg, Tail(f))

----------------------------------------------------------------------------
(* Errors and the interface *)

\* values of I::InterfaceError
Errs == {"e1", "e2"}

\* what a call of the interface does: succeed, or fail with an error
Outcomes == {"ok"} \cup Errs

Ok == [tag |-> "Ok", err |-> "none"]
Pending == [tag |-> "Pending", err |-> "none"]

From_invalid(e) == [tag |-> "InvalidValue", err |-> "none"]

\* impl From<IE> for RegisterError<IE>
From(e) == [tag |-> "HardwareError", err |-> e]

\* the ? operator on an interface result
Try(out) == IF out = "ok" THEN Ok ELSE From(out)

\* read_register(address, value) / write_register(address, value) as the
\* interface sees it: which accessor called, the bytes written, the outcome
Call(kind, reg, bytes, out) ==
    [kind |-> kind, acc |-> reg, addr |-> Addr(reg), bytes |-> bytes, err |-> out]

\* the content of a memory-like interface after write_register(address,
\* value): a successful write stores the bytes, a failed one leaves the
\* content as it was
Written(reg, bytes, out) ==
    IF out = "ok" THEN [mem EXCEPT ![Addr(reg)] = bytes] ELSE mem

----------------------------------------------------------------------------
(* Borrows *)

\* pub fn $register_set_name(&'a mut self) -> RegisterSet<'a, I>: the device
\* is borrowed mutably as long as the RegisterSet lives
CanBorrowDevice == ~setLive

CanBorrowSet_shared == setLive

\* pub fn $register_name(&'a mut self) -> RegAccessor<'a, ..>: the RegisterSet
\* <'a> is borrowed mutably for 'a, all of its own lifetime
CanBorrowSet == setLive /\ ~setUsed

NoOp == [op |-> "none", reg |-> "none", f |-> <<>>, r |-> <<>>, w |-> <<>>,
         res |-> Pending, invoked |-> FALSE]

\* an operation entered while another accessor is inside its modify closure
\* adds its calls to those of that modify
Nested == \E r \in accs : pc[r] = "transform"
CallsSoFar == IF Nested THEN trace ELSE <<>>

GetRegisterSet ==
    /\ CanBorrowDevice
    /\ setLive' = TRUE
    /\ setUsed' = FALSE
    /\ UNCHANGED <<dev, mem, accs, pc, rval, trace, last, codec>>

GetAccessor(reg) ==
    /\ CanBorrowSet
    /\ reg \in RegsOf(dev) \ accs
    /\ accs' = accs \cup {reg}
    /\ setUsed' = TRUE
    /\ UNCHANGED <<dev, mem, setLive, pc, rval, trace, last, codec>>

\* the accessor goes out of scope, and with it what its operations returned
DropAccessor(reg) ==
    /\ reg \in accs
    /\ pc[reg] = "idle"
    /\ accs' = accs \ {reg}
    /\ trace' = CallsSoFar
    /\ last' = NoOp
    /\ UNCHANGED <<dev, mem, setLive, setUsed, pc, rval, codec>>

\* the caller lets go of what the last operation returned; it does so before
\* it starts the next write or modify, and may read in between
Discard ==
    /\ last # NoOp
    /\ ~Nested
    /\ last' = NoOp
    /\ trace' = <<>>
    /\ UNCHANGED <<dev, mem, setLive, setUsed, accs, pc, rval, codec>>

\* no result of a completed operation is in the caller's hands
NothingHeld == last.res = Pending

DropRegisterSet ==
    /\ setLive
    /\ accs = {}
    /\ setLive' = FALSE
    /\ setUsed' = FALSE
    /\ UNCHANGED <<dev, mem, accs, pc, rval, trace, last, codec>>

----------------------------------------------------------------------------
(* RegAccessor::read / write / modify *)

\* R::zero() / W::zero()
RZero(reg) == zero(Size(reg))
WZero_ones(reg) == [i \in 1..Size(reg) |-> 255]
WZero(reg) == zero(Size(reg))

\* let mut r = R::zero(); self.interface.read_register(address, &mut r.0)
ReadInto(reg, out) == IF out = "ok" THEN mem[Addr(reg)] ELSE RZero(reg)

Read(reg, out) ==
    /\ reg \in accs
    /\ pc[reg] = "idle"
    /\ HasRead(reg)
    /\ trace' = Append(CallsSoFar, Call("read", reg, <<>>, out))
    /\ last' = [op |-> "read", reg |-> reg, f |-> <<>>,
                r |-> IF out = "ok" THEN ReadInto(reg, out) ELSE <<>>,
                w |-> <<>>, res |-> Try(out), invoked |-> FALSE]
    /\ UNCHANGED <<dev, mem, setLive, setUsed, accs, pc, rval, codec>>

Write(reg, f, out) ==
    /\ reg \in accs
    /\ pc[reg] = "idle"
    /\ HasWrite(reg)
    /\ NothingHeld
    /\ LET w == ApplySetters(WZero(reg), reg, f)
       IN  /\ trace' = Append(CallsSoFar, Call("write", reg, w, out))
           /\ mem' = Written(reg, w, out)
           /\ last' = [op |-> "write", reg |-> reg, f |-> f, r |-> <<>>,
                       w |-> w, res |-> Try(out), invoked |-> TRUE]
    /\ UNCHANGED <<dev, setLive, setUsed, accs, pc, rval, codec>>

ModifyAfterRead_ignore(res) == "transform"

\* let r = self.read()?; an error returns from modify, a value goes on to
\* the closure
ModifyAfterRead(res) == IF res = Ok THEN "transform" ELSE "idle"

Seed_zero(r) == zero(Len(r))

\* let w = W(r.0.clone());
Seed(r) == r

\* modify up to the call of the closure
ModifyRead(reg, out) ==
    /\ reg \in accs
    /\ pc[reg] = "idle"
    /\ HasModify(reg)
    /\ NothingHeld
    /\ LET res == Try(out)
           next == ModifyAfterRead(res)
       IN  /\ trace' = Append(CallsSoFar, Call("read", reg, <<>>, out))
           /\ pc' = [pc EXCEPT ![reg] = next]
           /\ rval' = [rval EXCEPT ![reg] =
                          IF next = "transform" THEN ReadInto(reg, out) ELSE <<>>]
           /\ last' = [op |-> "modify", reg |-> reg, f |-> <<>>,
                       r |-> IF next = "transform" THEN ReadInto(reg, out) ELSE <<>>,
                       w |-> <<>>,
                       res |-> IF next = "transform" THEN Pending ELSE res,
                       invoked |-> FALSE]
    /\ UNCHANGED <<dev, mem, setLive, setUsed, accs, codec>>

\* modify from the call of the closure: let w = f(r, w); self.write(|_| w)?
ModifyWrite(reg, f, out) ==
    /\ reg \in accs
    /\ pc[reg] = "transform"
    /\ LET w == ApplySetters(Seed(rval[reg]), reg, f)
       IN  /\ trace' = Append(trace, Call("write", reg, w, out))
           /\ mem' = Written(reg, w, out)
           /\ last' = [op |-> "modify", reg |-> reg, f |-> f, r |-> rval[reg],
                       w |-> w, res |-> Try(out), invoked |-> TRUE]
    /\ pc' = [pc EXCEPT ![reg] = "idle"]
    /\ rval' = [rval EXCEPT ![reg] = <<>>]
    /\ UNCHANGED <<dev, setLive, setUsed, accs, codec>>

----------------------------------------------------------------------------
(* The device in use *)

\* what every byte of the registers holds when the device is handed over
Patterns == {255, 165}

Init ==
    /\ dev \in Devices
    /\ \E p \in Patterns :
          mem = [a \in AddrsOf(dev) |-> [i \in 1..Size(RegAt(dev, a)) |-> p]]
    /\ setLive = FALSE
    /\ setUsed = FALSE
    /\ accs = {}
    /\ pc = [r \in Regs |-> "idle"]
    /\ rval = [r \in Regs |-> <<>>]
    /\ trace = <<>>
    /\ last = NoOp
    /\ codec = [pc |-> "off", buf |-> <<>>, prev |-> <<>>, field |-> Field(0, 0, 0),
                val |-> 0, out |-> 0]

Next ==
    \/ GetRegisterSet
    \/ DropRegisterSet
    \/ Discard
    \/ \E reg \in Regs : GetAccessor(reg)
    \/ \E reg \in Regs : DropAccessor(reg)
    \/ \E reg \in Regs, out \in Outcomes : Read(reg, out)
    \/ \E reg \in Regs, out \in Outcomes : \E f \in Transforms(reg) : Write(reg, f, out)
    \/ \E reg \in Regs, out \in Outcomes : ModifyRead(reg, out)
    \/ \E reg \in Regs, out \in Outcomes : \E f \in Transforms(reg) : ModifyWrite(reg, f, out)

Spec == Init /\ [][Next]_vars

----------------------------------------------------------------------------
(* Properties of the accessors *)

HwError(e) == [tag |-> "HardwareError", err |-> e]

\* the value of field fld of register reg in a register buffer
FieldOf(buf, reg, fld) == Getter(buf, Range(reg, fld))

Untouched(reg, f) == Fields(reg) \ Touched(f)

ModifyDone(l) == l.op = "modify" /\ l.invoked
ReadBack(l, l2) == l.res = Ok /\ l2.op = "read" /\ l2.reg = l.reg /\ l2.res = Ok

\* C1: a modify writes back every field its closure did not set with the
\* value modify read for it, and after a successful modify a read of the
\* register returns, for every such field, the value modify had read.
C1_ModifyKeepsUntouched ==
    [][/\ ModifyDone(last') =>
            \A fld \in Untouched(last'.reg, last'.f) :
                FieldOf(last'.w, last'.reg, fld) = FieldOf(last'.r, last'.reg, fld)
       /\ (ModifyDone(last) /\ ReadBack(last, last')) =>
            \A fld \in Untouched(last.reg, last.f) :
                FieldOf(last'.r, last.reg, fld) = FieldOf(last.r, last.reg, fld)]_vars

\* a successful modify left a field alone that was not zero, and changed
\* the register
C1_Witness ==
    /\ ModifyDone(last)
    /\ last.res = Ok
    /\ last.f # <<>>
    /\ mem[Addr(last.reg)] # last.r
    /\ \E fld \in Untouched(last.reg, last.f) : FieldOf(last.r, last.reg, fld) # 0

\* the read_register call of a modify failed
ModifyReadFailed(l, tr) ==
    /\ l.op = "modify"
    /\ \E i \in 1..Len(tr) :
          tr[i].kind = "read" /\ tr[i].acc = l.reg /\ tr[i].err # "ok"

\* C2: when the read_register call of a modify fails with e, modify returns
\* HardwareError(e), the closure is not called, write_register is not called
\* and the content of the interface stays as it was.
C2_ModifyReadFailure ==
    [][ModifyReadFailed(last', trace') =>
          /\ Len(trace') = 1
          /\ last'.res = HwError(trace'[1].err)
          /\ ~last'.invoked
          /\ pc'[last'.reg] = "idle"
          /\ mem' = mem]_vars

C2_Witness ==
    /\ ModifyReadFailed(last, trace)
    /\ last.res = HwError("e2")
    /\ mem[Addr(last.reg)] # zero(Size(last.reg))

\* C3: a failed interface call is the last call of its operation, and the
\* operation returns HardwareError with the error of that call; no operation
\* returns InvalidValue, and none returns an error when no call failed.
C3_ErrorsPropagate ==
    /\ last.res.tag # "InvalidValue"
    /\ \A i \in 1..Len(trace) :
          trace[i].err # "ok" =>
              /\ i = Len(trace)
              /\ last.res = HwError(trace[i].err)
              /\ \A r \in Regs : pc[r] = "idle"
    /\ last.res.tag = "HardwareError" =>
          /\ trace # <<>>
          /\ trace[Len(trace)].err = last.res.err

\* the write step of a modify failed after its read step succeeded
C3_Witness ==
    /\ last.op = "modify"
    /\ Len(trace) = 2
    /\ trace[1].err = "ok"
    /\ trace[2].kind = "write"
    /\ trace[2].err = "e2"
    /\ last.res = HwError("e2")

\* each closure call sets another field, to a value that fits the field
SetsEachField(reg, f) ==
    /\ Touched(f) = Fields(reg)
    /\ Len(f) = Cardinality(Fields(reg))
    /\ \A i \in 1..Len(f) : f[i].val < Pow2(Width(Range(reg, f[i].field)))

\* the sum (the bitwise OR, the fields being disjoint) of value << lo
RECURSIVE Packed(_, _)
Packed(reg, f) ==
    IF f = <<>>
    THEN 0
    ELSE Head(f).val * Pow2(Range(reg, Head(f).field).lo) + Packed(reg, Tail(f))

WriteOfAll(l) ==
    /\ l.op = "write"
    /\ Access(l.reg) = "RW"
    /\ Size(l.reg) = 1
    /\ SetsEachField(l.reg, l.f)

\* C7: on a 1-byte ReadWrite register, a write that sets every field to a
\* value that fits hands write_register the byte that is the OR of
\* value << lo over the fields, and a read that follows returns every value:
\* count = 9 and flag = 1 give 0b00010011.
C7_WriteThenRead ==
    [][/\ WriteOfAll(last') =>
            /\ trace' # <<>>
            /\ trace'[Len(trace')].kind = "write"
            /\ trace'[Len(trace')].bytes = <<Packed(last'.reg, last'.f)>>
       /\ (WriteOfAll(last) /\ ReadBack(last, last')) =>
            \A i \in 1..Len(last.f) :
                FieldOf(last'.r, last.reg, last.f[i].field) = last.f[i].val]_vars

C7_Witness ==
    /\ last.op = "write"
    /\ last.reg = "ctrl"
    /\ last.res = Ok
    /\ last.f = <<[field |-> "count", val |-> 9], [field |-> "flag", val |-> 1]>>
    /\ mem[Addr("ctrl")] = <<19>>

\* C8: write_register is not called with the address of a ReadOnly register,
\* read_register is not called with the address of a WriteOnly register, and
\* only a ReadWrite register is modified.
C8_AccessModes ==
    /\ \A i \in 1..Len(trace) :
          /\ trace[i].kind = "write" => Access(RegAt(dev, trace[i].addr)) # "RO"
          /\ trace[i].kind = "read" => Access(RegAt(dev, trace[i].addr)) # "WO"
    /\ \A r \in Regs : pc[r] = "transform" => Access(r) = "RW"
    /\ last.op = "modify" => Access(last.reg) = "RW"
    /\ last.op = "write" => Access(last.reg) # "RO"
    /\ last.op = "read" => Access(last.reg) # "WO"

\* the accessor of a ReadOnly register has read it
C8_Witness ==
    /\ last.op = "read"
    /\ Access(last.reg) = "RO"
    /\ trace # <<>>
    /\ trace[1].addr = Addr(last.reg)

\* C9: at most one accessor is live, and between the read step and the write
\* step of a modify the interface sees no call of another accessor: while the
\* closure runs the calls are the modify's read, after it the read and the
\* write.
C9_OneAccessor ==
    /\ Cardinality(accs) <= 1
    /\ \A i \in 1..Len(trace) : trace[i].acc \in accs
    /\ \A r \in Regs :
          pc[r] = "transform" =>
              /\ accs = {r}
              /\ Len(trace) = 1
              /\ trace[1].kind = "read" /\ trace[1].acc = r
    /\ ModifyDone(last) =>
          /\ Len(trace) = 2
          /\ trace[1].kind = "read" /\ trace[1].acc = last.reg
          /\ trace[2].kind = "write" /\ trace[2].acc = last.reg

\* a modify is between its read and its write
C9_Witness ==
    \E r \in Regs :
        /\ pc[r] = "transform"
        /\ r \in accs
        /\ setLive /\ setUsed
        /\ trace # <<>>

\* bit i of a register buffer is inside the range of one of the fields
InFields(reg, flds, i) ==
    \E fld \in flds : Range(reg, fld).lo <= i /\ i < Range(reg, fld).hi

\* the value the closure's last call for fld handed to the setter
LastSet(f, fld) ==
    f[CHOOSE i \in 1..Len(f) :
          /\ f[i].field = fld
          /\ \A j \in (i + 1)..Len(f) : f[j].field # fld].val

\* C10: a write makes one interface call, a write_register, with the bytes
\* the closure made of the all-zero buffer: a field the closure set holds the
\* value set, every bit outside those fields is zero, whatever the register
\* holds.
C10_WriteFromZero ==
    last.op = "write" =>
        /\ Len(trace) = 1
        /\ trace[1].kind = "write"
        /\ trace[1].addr = Addr(last.reg)
        /\ trace[1].bytes = last.w
        /\ Len(last.w) = Size(last.reg)
        /\ \A fld \in Untouched(last.reg, last.f) : FieldOf(last.w, last.reg, fld) = 0
        /\ \A i \in 0..(ByteBits * Size(last.reg) - 1) :
              ~InFields(last.reg, Touched(last.f), i) => Bit(last.w, i) = 0
        /\ \A fld \in Touched(last.f) :
              FieldOf(last.w, last.reg, fld) =
                  LastSet(last.f, fld) % Pow2(Width(Range(last.reg, fld)))

\* a write that failed: the register holds ones where the bytes handed to
\* write_register hold the zeros of a field the closure did not set
C10_Witness ==
    /\ last.op = "write"
    /\ last.res.tag = "HardwareError"
    /\ last.f # <<>>
    /\ \E fld \in Untouched(last.reg, last.f) :
          /\ FieldOf(mem[Addr(last.reg)], last.reg, fld) # 0
          /\ FieldOf(last.w, last.reg, fld) = 0

----------------------------------------------------------------------------
(* The codec on a free-standing buffer *)

\* contents a byte of the starting buffer is drawn from
ByteSamples == {0, 255, 165}

CodecBufs == [1..CodecSize -> ByteSamples]

\* u8 for ranges of up to 8 bits, u16 above
TypeFor(w) == IF w <= ByteBits THEN ByteBits ELSE 2 * ByteBits

\* every bit range of the buffer a u8 or u16 field can be declared on
CodecFields ==
    {Field(l, h, TypeFor(h - l)) :
        <<l, h>> \in {r \in (0..(ByteBits * CodecSize - 1)) \X (1..(ByteBits * CodecSize)) :
                        r[1] < r[2] /\ r[2] - r[1] <= 2 * ByteBits}}

\* the values of the field's scalar type a setter is called with: the small
\* ones, the widest that fits the field (all ones) and one that does not fit
CodecVals(F) ==
    {v \in (0..MaxCodecVal) \cup {Pow2(Width(F)) - 1, Pow2(Width(F)) + 1} :
        v < Pow2(F.bits)}

NoField == Field(0, 0, 0)

CodecStart(buf) ==
    [pc |-> "start", buf |-> buf, prev |-> buf, field |-> NoField, val |-> 0, out |-> 0]

\* w.$field_name(v) on a buffer
CodecSet(F, v) ==
    /\ codec.pc = "start"
    /\ codec' = [codec EXCEPT !.pc = "set", !.prev = codec.buf,
                              !.buf = Setter(codec.buf, F, v),
                              !.field = F, !.val = v]
    /\ UNCHANGED <<dev, mem, setLive, setUsed, accs, pc, rval, trace, last>>

\* r.$field_name() on a buffer
CodecGet(F) ==
    /\ codec.pc = "start"
    /\ codec' = [codec EXCEPT !.pc = "got", !.field = F,
                              !.out = Getter(codec.buf, F)]
    /\ UNCHANGED <<dev, mem, setLive, setUsed, accs, pc, rval, trace, last>>

\* the getter of the field that was just set
CodecGetBack ==
    /\ codec.pc = "set"
    /\ codec' = [codec EXCEPT !.pc = "setgot",
                              !.out = Getter(codec.buf, codec.field)]
    /\ UNCHANGED <<dev, mem, setLive, setUsed, accs, pc, rval, trace, last>>

InitCodec ==
    /\ dev = "sensor"
    /\ mem = [a \in AddrsOf(dev) |-> zero(Size(RegAt(dev, a)))]
    /\ setLive = FALSE
    /\ setUsed = FALSE
    /\ accs = {}
    /\ pc = [r \in Regs |-> "idle"]
    /\ rval = [r \in Regs |-> <<>>]
    /\ trace = <<>>
    /\ last = NoOp
    /\ \E buf \in CodecBufs : codec = CodecStart(buf)

NextCodec ==
    \/ \E F \in CodecFields : \E v \in CodecVals(F) : CodecSet(F, v)
    \/ \E F \in CodecFields : CodecGet(F)
    \/ CodecGetBack

SpecCodec == InitCodec /\ [][NextCodec]_vars

----------------------------------------------------------------------------
(* Properties of the codec *)

\* C4: the getter of a field of width w, applied to what the field's setter
\* made of any buffer and any value v, returns v mod 2^w, which is v when v
\* fits in w bits.
C4_GetAfterSet ==
    codec.pc = "setgot" =>
        /\ codec.out = codec.val % Pow2(Width(codec.field))
        /\ codec.val < Pow2(Width(codec.field)) => codec.out = codec.val

\* a value too wide for a field that crosses a byte boundary was set and got
C4_Witness ==
    /\ codec.pc = "setgot"
    /\ FirstElem(codec.field.lo) # LastElem(codec.field.hi)
    /\ codec.val >= Pow2(Width(codec.field))
    /\ codec.out # 0
    /\ codec.prev # codec.buf

\* C5: the buffer a setter returns differs from the buffer it was given only
\* at bits inside the field's range, also for a value too wide for the field.
C5_SetterFrame ==
    codec.pc \in {"set", "setgot"} =>
        /\ Len(codec.buf) = Len(codec.prev)
        /\ \A k \in 1..Len(codec.buf) : codec.buf[k] \in 0..(ByteMod - 1)
        /\ \A i \in 0..(ByteBits * Len(codec.buf) - 1) :
              (i < codec.field.lo \/ i >= codec.field.hi) =>
                  Bit(codec.buf, i) = Bit(codec.prev, i)

\* a value too wide was set in a byte-crossing field with ones on both sides
C5_Witness ==
    /\ codec.pc = "set"
    /\ FirstElem(codec.field.lo) # LastElem(codec.field.hi)
    /\ codec.val >= Pow2(Width(codec.field))
    /\ codec.field.lo > 0
    /\ codec.field.hi < ByteBits * Len(codec.buf)
    /\ Bit(codec.prev, codec.field.lo - 1) = 1
    /\ Bit(codec.prev, codec.field.hi) = 1
    /\ codec.buf # codec.prev

\* weight of buffer bit i when bit lo is the least and bit hi - 1 the most
\* significant bit of the value
FlatWeight(F, i) == i - F.lo

\* the sum of Bit(buf, i) * 2^FlatWeight(F, i) over the bits i..hi-1 of F
RECURSIVE FlatValue(_, _, _)
FlatValue(buf, F, i) ==
    IF i >= F.hi
    THEN 0
    ELSE Bit(buf, i) * Pow2(FlatWeight(F, i)) + FlatValue(buf, F, i + 1)

\* C6 as stated: the getter of [lo, hi) returns the value whose most
\* significant bit is buffer bit hi - 1 and whose least significant bit is
\* buffer bit lo, also when the range spans more than one byte.
C6_HighestBitIsMsb ==
    codec.pc = "got" =>
        codec.out = FlatValue(codec.buf, codec.field, codec.field.lo)

\* weight of buffer bit i when the bits of a byte keep their order and the
\* bits of an earlier byte are more significant than those of a later byte:
\* the bits of the range below i in i's own byte, and the bits of the range
\* in all later bytes, are less significant
ByteOrderWeight(F, i) ==
    LET b == i \div ByteBits
        first == IF F.lo > ByteBits * b THEN F.lo ELSE ByteBits * b
        after == IF F.hi > ByteBits * (b + 1) THEN F.hi - ByteBits * (b + 1) ELSE 0
    IN  (i - first) + after

\* the sum of Bit(buf, i) * 2^ByteOrderWeight(F, i) over the bits i..hi-1 of F
RECURSIVE ByteOrderValue(_, _, _)
ByteOrderValue(buf, F, i) ==
    IF i >= F.hi
    THEN 0
    ELSE Bit(buf, i) * Pow2(ByteOrderWeight(F, i)) + ByteOrderValue(buf, F, i + 1)

\* C6 as amended: inside one byte the value's bits are buffer bits lo (least
\* significant) to hi - 1 (most significant); over several bytes each byte's
\* bits keep that order and the first byte's bits are the most significant.
C6_FirstByteIsMsb ==
    codec.pc = "got" =>
        /\ codec.out = ByteOrderValue(codec.buf, codec.field, codec.field.lo)
        /\ FirstElem(codec.field.lo) = LastElem(codec.field.hi) =>
              codec.out = FlatValue(codec.buf, codec.field, codec.field.lo)

\* a byte-crossing field was got whose value shows the order of the bytes
C6_Witness ==
    /\ codec.pc = "got"
    /\ FirstElem(codec.field.lo) # LastElem(codec.field.hi)
    /\ codec.out # FlatValue(codec.buf, codec.field, codec.field.lo)

====
